---- MODULE Spec2Model ----
(***************************************************************************)
(* Model of src/app.py, the Streamlit "Supply Chain Control Tower".        *)
(*                                                                         *)
(* Streamlit executes the whole script once per user interaction; the only *)
(* state that survives a run is st.session_state.vrp_data_v7.  A run goes  *)
(* through the script in order (pc): the controls are read, the button     *)
(* branch (generate, matrix, solve, extract, store) is taken or not, and   *)
(* the renderer at the end of the script projects the schedule.            *)
(*                                                                         *)
(* Numbers.  Python floats are modelled by exact rationals:                *)
(*   - a speed is kept in hundredths of km/h (effective_speed * 100);      *)
(*   - with D the divisor in hundredths of km/h, a duration is an integer  *)
(*     number of 1/D minutes (travel_min = dist_m * 6 / D minutes);        *)
(*   - the wall clock is read with millisecond resolution, so the part of  *)
(*     a datetime below the minute is kept in units of 1/(60000*D) minute. *)
(* Distances are the integers of dist_matrix (metres).                     *)
(***************************************************************************)
EXTENDS Integers, Sequences, FiniteSets, TLC

\* ------------------------------------------------------------ bounds
\* The sliders allow up to 30 stops and 5 vehicles; the model explores
\* scenarios of at most MaxStops customers and MaxVehicles vehicles.
MaxStops == 2
MaxVehicles == 2

\* ------------------------------------------------------------ inputs
VehicleCounts == 2..MaxVehicles
StopCounts == 1..MaxStops
\* number_input has no min/max: any integer can be entered.
BaseSpeeds == {-60, 0, 1, 60}
\* slider 0..90 (percent)
TrafficLevels == {20, 90}
\* Milan's depot lies inside its safe zone (as does Rome's), Naples' does not.
DepotCities == {"Milan (Inland)", "Naples (Coastal)"}
\* Entries of dist_matrix that the scenarios of the model draw from: two
\* points less than one metre apart (truncated to 0), and a long haul that
\* stands for the accumulated legs of a tour of many stops, so that the
\* distance cap matters in scenarios of MaxStops customers.
DistVals == {0, 148793}
\* datetime.datetime.now(): the date and the part below the second are all
\* that survive .replace(hour=8, minute=0, second=0).
NowDays == {0, 1}
NowMillis == {0, 600}
Nows == [day : NowDays, ms : NowMillis]

\* ------------------------------------------------------------ constants
MaxTravelDistance == 300000
service_min == 15
StartMinuteOfDay == 480
\* Naples' depot lies outside its own safe zone: 40.86 - 40.8518 degrees of
\* latitude is the least a customer can be away (metres, truncated).
NaplesMinDepotDist == 911

RECURSIVE SumSeq(_)
SumSeq(s) == IF s = <<>> THEN 0 ELSE Head(s) + SumSeq(Tail(s))

\* ------------------------------------------------------------ scenario

\* locations[i]['name']
LocationName(i) ==
    IF i = 0 THEN [text |-> "Central Depot", num |-> 0]
             ELSE [text |-> "Customer #", num |-> i]

\* "Depot" in name
ContainsDepot(name) == name.text = "Central Depot"

NodePairs(n) == {p \in (0..n) \X (0..n) : p[1] < p[2]}

MatrixOf(n, f) ==
    [p \in (0..n) \X (0..n) |->
        IF p[1] = p[2] THEN 0
        ELSE IF p[1] < p[2] THEN f[p] ELSE f[<<p[2], p[1]>>]]

\* Truncated great-circle distances: d(i,k) <= d(i,j) + d(j,k) + 1.
Metric(n, dm) ==
    \A i, j, k \in 0..n : dm[<<i, k>>] <= dm[<<i, j>>] + dm[<<j, k>>] + 1

InZone(n, city, dm) ==
    city = "Naples (Coastal)" => \A c \in 1..n : dm[<<0, c>>] >= NaplesMinDepotDist

\* The matrices int(haversine * 1000) can produce for n random customers.
DistMatrices(n, city) ==
    {dm \in {MatrixOf(n, f) : f \in [NodePairs(n) -> DistVals]} :
        Metric(n, dm) /\ InZone(n, city, dm)}

\* ------------------------------------------------------------ solver

\* The nodes one vehicle passes, depot to depot.
Path(r) == <<0>> \o r \o <<0>>

\* Cumulated transit of the 'Distance' dimension at the end of a route.
RouteTransit(r, dm) ==
    SumSeq([i \in 1..(Len(r) + 1) |-> dm[<<Path(r)[i], Path(r)[i + 1]>>]])

\* AddDimension(transit, 0, 300000, True, 'Distance'): a hard cap.
WithinCapNone(r, dm) == TRUE
WithinCap(r, dm) == RouteTransit(r, dm) <= MaxTravelDistance

Orders(n) ==
    {o \in [1..n -> 1..n] : \A i, j \in 1..n : i # j => o[i] # o[j]}

\* The customers order o gives vehicle v under assignment a, in o's order.
RouteOf(o, a, v) == SelectSeq(o, LAMBDA c : a[c] = v)

\* What SolveWithParameters may return as a solution: every customer is on
\* exactly one vehicle's route, once (the routing model has no disjunctions),
\* and every route respects the dimension's capacity.  Which of them the
\* search returns is left open.
SolverOutputs(dm, n, nv) ==
    {sol \in {[v \in 1..nv |-> RouteOf(o, a, v)] :
                  o \in Orders(n), a \in [1..n -> 1..nv]} :
        \A v \in 1..nv : WithinCap(sol[v], dm)}

\* ------------------------------------------------------------ extraction

colors == <<"red", "blue", "green", "orange", "purple">>

\* The while loop from routing.Start(vehicle_id) to the end node: one leg
\* per arc, the arc depot -> depot of an unused vehicle included.
RouteLegs(r, dm) ==
    [i \in 1..(Len(r) + 1) |->
        [start |-> Path(r)[i],
         end |-> Path(r)[i + 1],
         end_name |-> LocationName(Path(r)[i + 1]),
         dist_m |-> dm[<<Path(r)[i], Path(r)[i + 1]>>]]]

TotalDist(legs) == SumSeq([i \in 1..Len(legs) |-> legs[i].dist_m])

\* if len(route_legs) > 0: ... if total_dist > 0: raw_routes.append(...)
KeepRouteAny(legs) == Len(legs) > 0
KeepRoute(legs) == Len(legs) > 0 /\ TotalDist(legs) > 0

RECURSIVE ExtractFrom(_, _, _, _)
ExtractFrom(sol, dm, nv, v) ==
    IF v > nv THEN <<>>
    ELSE LET legs == RouteLegs(sol[v], dm)
             this == IF KeepRoute(legs)
                     THEN << [vehicle_id |-> v,
                              color |-> colors[((v - 1) % Len(colors)) + 1],
                              legs |-> legs] >>
                     ELSE <<>>
         IN  this \o ExtractFrom(sol, dm, nv, v + 1)

\* for vehicle_id in range(num_vehicles): ...
ExtractRoutes(sol, dm, nv) == ExtractFrom(sol, dm, nv, 1)

\* ------------------------------------------------------------ session state

AbsentData == [kind |-> "absent", center |-> "", raw_routes |-> <<>>]
NoneData == [kind |-> "None", center |-> "", raw_routes |-> <<>>]
SolutionData(city, routes) ==
    [kind |-> "data", center |-> city, raw_routes |-> routes]

\* if 'vrp_data_v7' not in st.session_state: st.session_state.vrp_data_v7 = None
SessionInitReset(v) == NoneData
SessionInit(v) == IF v.kind = "absent" THEN NoneData ELSE v

\* ------------------------------------------------------------ speed and time

\* effective_speed = base_speed * (1 - traffic_intensity / 100), in
\* hundredths of km/h.
effective_speed(bs, ti) == bs * (100 - ti)

\* max(effective_speed, 1), in hundredths of km/h.
SpeedDivisorFloorZero(es) == IF es > 0 THEN es ELSE 0
SpeedDivisor(es) == IF es > 100 THEN es ELSE 100

\* travel_min = (dist_m / 1000) / divisor * 60, in 1/D minutes.
travel_min(dist_m) == dist_m * 6

\* A datetime: the day, the minute of the day, and the part below the minute
\* in units of 1/(60000 * D) minute.
\* datetime.datetime.now().replace(hour=8, minute=0, second=0): the
\* microsecond field keeps the value the clock gave.
current_time_base(now, D) ==
    [day |-> now.day, minute |-> StartMinuteOfDay, frac |-> now.ms * D]

\* dt + datetime.timedelta(minutes = delta / D)
DtSub(dt, delta, D) ==
    LET f == dt.frac + ((0 - delta) % D) * 60000
        m == dt.minute + ((0 - delta) \div D) + (f \div (60000 * D))
    IN  [day |-> dt.day + (m \div 1440),
         minute |-> m % 1440,
         frac |-> f % (60000 * D)]
DtAdd(dt, delta, D) ==
    LET f == dt.frac + (delta % D) * 60000
        m == dt.minute + (delta \div D) + (f \div (60000 * D))
    IN  [day |-> dt.day + (m \div 1440),
         minute |-> m % 1440,
         frac |-> f % (60000 * D)]

\* (a - b).total_seconds() / 60, in 1/D minutes (a and b of one projection
\* differ by a whole number of 1/D minutes).
DtDiff(a, b, D) ==
    ((a.day - b.day) * 1440 + (a.minute - b.minute)) * D
        + ((a.frac - b.frac) \div 60000)

DtLE(a, b) ==
    \/ a.day < b.day
    \/ a.day = b.day /\ a.minute < b.minute
    \/ a.day = b.day /\ a.minute = b.minute /\ a.frac <= b.frac

\* vehicle_time.strftime("%H:%M")
strftimeHM(dt) == [H |-> dt.minute \div 60, M |-> dt.minute % 60]

\* ------------------------------------------------------------ renderer

\* The loop over route["legs"]: the values of travel_min and vehicle_time
\* after each leg.
RECURSIVE WalkLegs(_, _, _, _)
WalkLegs(legs, i, vt, D) ==
    IF i > Len(legs) THEN <<>>
    ELSE LET t == travel_min(legs[i].dist_m)
             next == DtAdd(vt, t + service_min * D, D)
         IN  << [travel_min |-> t, vehicle_time |-> next] >>
                 \o WalkLegs(legs, i + 1, next, D)

\* truck_schedule: the legs whose end_name does not contain "Depot".
TruckSchedule(legs, walk) ==
    LET idx == SelectSeq([i \in 1..Len(legs) |-> i],
                         LAMBDA i : ~ContainsDepot(legs[i].end_name))
    IN  [k \in 1..Len(idx) |->
            [Stop |-> legs[idx[k]].end_name,
             ETA |-> strftimeHM(walk[idx[k]].vehicle_time)]]

\* One entry of fleet_itinerary; total_km in metres, total_time in 1/D minutes.
Itinerary(route, walk, base, D) ==
    [id |-> route.vehicle_id,
     color |-> route.color,
     total_km |-> TotalDist(route.legs),
     total_time |-> IF walk = <<>> THEN 0
                    ELSE DtDiff(walk[Len(walk)].vehicle_time, base, D),
     stops |-> TruckSchedule(route.legs, walk)]

NoRender ==
    [status |-> "none", divisor |-> 0,
     current_time_base |-> [day |-> 0, minute |-> 0, frac |-> 0],
     walk |-> <<>>, fleet_itinerary |-> <<>>,
     total_fleet_km |-> 0, total_fleet_hours |-> 0]

\* if st.session_state.vrp_data_v7: ... (a dict with two keys is truthy).
\* A division by zero at travel_min raises ZeroDivisionError and ends the run.
Renderer(data, es, now) ==
    IF data.kind # "data" THEN NoRender
    ELSE LET D == SpeedDivisor(es)
             routes == data.raw_routes
         IN  IF D = 0 /\ routes # <<>>
             THEN [NoRender EXCEPT !.status = "ZeroDivisionError"]
             ELSE LET base == current_time_base(now, D)
                      walk == [r \in 1..Len(routes) |->
                                  WalkLegs(routes[r].legs, 1, base, D)]
                      itin == [r \in 1..Len(routes) |->
                                  Itinerary(routes[r], walk[r], base, D)]
                  IN  [status |-> "shown", divisor |-> D,
                       current_time_base |-> base,
                       walk |-> walk, fleet_itinerary |-> itin,
                       total_fleet_km |->
                           SumSeq([r \in 1..Len(routes) |-> itin[r].total_km]),
                       total_fleet_hours |->
                           SumSeq([r \in 1..Len(routes) |-> itin[r].total_time])]

\* ------------------------------------------------------------ state

VARIABLES
    pc,                 \* where the script is: "idle" between two runs
    vrp_data_v7,        \* st.session_state.vrp_data_v7
    mode,               \* the sidebar radio
    base_speed,         \* number_input "Max Speed (km/h)"
    traffic_intensity,  \* slider "Traffic Intensity", percent
    button,             \* what st.button(...) returned in this run
    solver,             \* "not called", "solved" or "failed" in this run
    locations,          \* customers generated in this run (0: none)
    render              \* what the renderer produced in this run

vars == <<pc, vrp_data_v7, mode, base_speed, traffic_intensity, button,
          solver, locations, render>>

\* A fresh session: nothing stored, no run yet; the widgets hold their defaults.
Init ==
    /\ pc = "idle"
    /\ vrp_data_v7 = AbsentData
    /\ mode = "none"
    /\ base_speed = 60
    /\ traffic_intensity = 20
    /\ button = FALSE
    /\ solver = "not called"
    /\ locations = 0
    /\ render = NoRender

\* A run in "Network Monitoring" mode: the VRP branch is not executed and
\* the page shows the static network only.
Monitoring ==
    /\ pc = "idle"
    /\ mode' = "monitoring"
    /\ button' = FALSE
    /\ solver' = "not called"
    /\ locations' = 0
    /\ render' = NoRender
    /\ UNCHANGED <<pc, vrp_data_v7, base_speed, traffic_intensity>>

\* A run in VRP mode starts: the page is rebuilt, the controls are read and
\* the session key is created if it is missing.
Controls ==
    /\ pc = "idle"
    /\ \E bs \in BaseSpeeds, ti \in TrafficLevels :
        /\ base_speed' = bs
        /\ traffic_intensity' = ti
    /\ mode' = "vrp"
    /\ button' = FALSE
    /\ solver' = "not called"
    /\ locations' = 0
    /\ render' = NoRender
    /\ vrp_data_v7' = SessionInit(vrp_data_v7)
    /\ pc' = "button"

\* if st.button(...): False.
NotPressed ==
    /\ pc = "button"
    /\ pc' = "render"
    /\ UNCHANGED <<vrp_data_v7, mode, base_speed, traffic_intensity, button,
                   solver, locations, render>>

\* Lines 97-175 for one choice of the controls: the random points give a
\* matrix, the solver a solution, and the extraction loop what is stored.
GenerateAndOptimize(nv, nl, city) ==
    UNION {{SolutionData(city, ExtractRoutes(sol, dm, nv)) :
                sol \in SolverOutputs(dm, nl, nv)} :
           dm \in DistMatrices(nl, city)}

\* Every outcome of a successful button branch, with the number of customers
\* it generated.
Generated ==
    UNION {{[locations |-> c[2], data |-> d] :
                d \in GenerateAndOptimize(c[1], c[2], c[3])} :
           c \in VehicleCounts \X StopCounts \X DepotCities}

\* The button branch with a solution: points, matrix, solve, extraction, and
\* the write of the session state.
GenerateSolved ==
    /\ pc = "button"
    /\ \E g \in Generated :
        /\ locations' = g.locations
        /\ vrp_data_v7' = g.data
    /\ button' = TRUE
    /\ solver' = "solved"
    /\ pc' = "render"
    /\ UNCHANGED <<mode, base_speed, traffic_intensity, render>>

\* The button branch when SolveWithParameters returns None: st.error, and
\* the session state stays as it was.
GenerateFailed ==
    /\ pc = "button"
    /\ \E nl \in StopCounts : locations' = nl
    /\ button' = TRUE
    /\ solver' = "failed"
    /\ pc' = "render"
    /\ UNCHANGED <<vrp_data_v7, mode, base_speed, traffic_intensity, render>>

\* The dynamic renderer, which ends the run.
DynamicRenderer ==
    /\ pc = "render"
    /\ \E now \in Nows :
        render' = Renderer(vrp_data_v7,
                           effective_speed(base_speed, traffic_intensity), now)
    /\ pc' = "idle"
    /\ UNCHANGED <<vrp_data_v7, mode, base_speed, traffic_intensity, button,
                   solver, locations>>

Next ==
    \/ Monitoring
    \/ Controls
    \/ NotPressed
    \/ GenerateSolved
    \/ GenerateFailed
    \/ DynamicRenderer

Spec == Init /\ [][Next]_vars

\* ------------------------------------------------------------ properties

RunDone == pc = "idle" /\ mode = "vrp"
Shown == render.status = "shown"
StoredRoutes == vrp_data_v7.raw_routes
CurrentSpeed == effective_speed(base_speed, traffic_intensity)

\* The places (route, leg) of the stored solution whose leg ends at customer c.
LegsEndingAt(c) ==
    {p \in (1..Len(StoredRoutes)) \X (1..(MaxStops + 1)) :
        /\ p[2] <= Len(StoredRoutes[p[1]].legs)
        /\ StoredRoutes[p[1]].legs[p[2]].end = c}

\* C1 (partition property): after a successful generate-and-solve run, every
\* customer 1..N is the destination of exactly one leg of the routes stored
\* in the session state.
C1_Partition ==
    (RunDone /\ button /\ solver = "solved") =>
        \A c \in 1..locations : Cardinality(LegsEndingAt(c)) = 1

\* C2: a run whose solve failed displays no solution.
C2_FailedSolveShowsNothing ==
    (RunDone /\ button /\ solver = "failed") => render.status = "none"

\* The solution the session holds, if any.
StoredSolution(v) == IF v.kind = "data" THEN v ELSE NoneData

\* C3: a step of a run in which the button is not pressed neither invokes
\* the solver nor changes the stored solution.
C3_NoResolve ==
    [][(~button') =>
          /\ solver' = "not called"
          /\ StoredSolution(vrp_data_v7') = StoredSolution(vrp_data_v7)]_vars

\* A run without the button has rendered a solution stored by an earlier run.
C3_Witness ==
    /\ RunDone /\ ~button /\ solver = "not called"
    /\ vrp_data_v7.kind = "data" /\ StoredRoutes # <<>>
    /\ Shown /\ Len(render.fleet_itinerary) = Len(StoredRoutes)

\* What a projection displays per vehicle: the ETAs and the elapsed time.
Displayed(rn) ==
    [r \in 1..Len(rn.fleet_itinerary) |->
        [stops |-> rn.fleet_itinerary[r].stops,
         total_time |-> rn.fleet_itinerary[r].total_time]]

\* C4 (idempotent projection): a projection of the same stored routes with
\* the same base speed and traffic intensity at any other wall-clock instant
\* displays the same ETAs and the same elapsed times as the one displayed.
C4_IdempotentProjection ==
    (RunDone /\ Shown) =>
        \A now \in Nows :
            Displayed(Renderer(vrp_data_v7, CurrentSpeed, now))
                = Displayed(render)

\* C5: for a positive base speed, the speed that converts the legs'
\* distances into travel time is base_speed * (1 - traffic_intensity).
C5_SpeedUsed ==
    (RunDone /\ Shown /\ render.walk # <<>> /\ base_speed > 0) =>
        render.divisor = CurrentSpeed

\* C6: whatever base speed and traffic are entered, the projection never
\* divides by a speed <= 0, and every leg's travel time is non-negative.
C6_DivisorPositive ==
    /\ render.status # "ZeroDivisionError"
    /\ Shown =>
        /\ render.divisor > 0
        /\ \A r \in 1..Len(render.walk) : \A i \in 1..Len(render.walk[r]) :
               render.walk[r][i].travel_min >= 0

\* A schedule was projected with a base speed of 0 or less.
C6_Witness ==
    /\ RunDone /\ Shown /\ base_speed <= 0
    /\ render.walk # <<>>

\* vehicle_time before leg i of route r.
TimeBefore(r, i) ==
    IF i = 1 THEN render.current_time_base
             ELSE render.walk[r][i - 1].vehicle_time

\* C7 (schedule monotonicity): within every route, vehicle_time after a leg
\* is not before vehicle_time after the preceding leg.
C7_Monotonic ==
    Shown =>
        \A r \in 1..Len(render.walk) : \A i \in 1..Len(render.walk[r]) :
            DtLE(TimeBefore(r, i), render.walk[r][i].vehicle_time)

\* A projected route of two customers with a leg of distance 0.
C7_Witness ==
    /\ RunDone /\ Shown
    /\ \E r \in 1..Len(StoredRoutes) :
          /\ Len(StoredRoutes[r].legs) >= 3
          /\ \E i \in 1..Len(StoredRoutes[r].legs) :
                StoredRoutes[r].legs[i].dist_m = 0

\* C8 (cap respected): the legs of every stored route sum to at most the
\* vehicle maximum travel distance.
C8_CapRespected ==
    vrp_data_v7.kind = "data" =>
        \A r \in 1..Len(StoredRoutes) :
            TotalDist(StoredRoutes[r].legs) <= MaxTravelDistance

\* A solve stored a route so long that one more long haul would break the cap.
C8_Witness ==
    /\ RunDone /\ button /\ solver = "solved"
    /\ \E r \in 1..Len(StoredRoutes) :
          2 * TotalDist(StoredRoutes[r].legs) > MaxTravelDistance

\* C9: for a positive effective speed, a vehicle's elapsed time is the sum
\* of leg_distance / effective_speed over its legs plus 15 minutes for each
\* customer stop of the route (durations compared as fractions: total_time
\* counts 1/divisor minutes).
C9_ElapsedTime ==
    (RunDone /\ Shown /\ CurrentSpeed > 0) =>
        \A r \in 1..Len(StoredRoutes) :
            LET it == render.fleet_itinerary[r]
                claimed == travel_min(TotalDist(StoredRoutes[r].legs))
                               + service_min * Len(it.stops) * CurrentSpeed
            IN  IF render.divisor = CurrentSpeed
                THEN it.total_time = claimed
                ELSE it.total_time * CurrentSpeed = render.divisor * claimed

\* C10: every stored route has a positive total distance and a customer
\* stop, and every itinerary the renderer builds lists at least one stop.
C10_UnusedOmitted ==
    /\ vrp_data_v7.kind = "data" =>
          \A r \in 1..Len(StoredRoutes) :
              /\ TotalDist(StoredRoutes[r].legs) > 0
              /\ \E i \in 1..Len(StoredRoutes[r].legs) :
                    ~ContainsDepot(StoredRoutes[r].legs[i].end_name)
    /\ Shown =>
          \A r \in 1..Len(render.fleet_itinerary) :
              render.fleet_itinerary[r].stops # <<>>

\* A solve left a vehicle unused, and the one route stored was rendered.
C10_Witness ==
    /\ RunDone /\ button /\ solver = "solved" /\ Shown
    /\ Len(StoredRoutes) = 1
    /\ Len(render.fleet_itinerary) = 1

====
